---- MODULE Spec2Model ----
(***************************************************************************)
(* Model of lib/serverless-app-stack.ts: the three ServerlessAppStack      *)
(* definitions (table, execution role, REST API methods) and the two       *)
(* Lambda handlers (the blogdb handler keyed on event.resource and the     *)
(* tutorial-items handler keyed on event.path).                            *)
(*                                                                         *)
(* JavaScript strings are sequences of chunks (TLA+ strings); the double   *)
(* quote and the backslash are chunks of their own, so JSON.stringify and  *)
(* JSON.parse can be computed on them.                                     *)
(***************************************************************************)
EXTENDS Naturals, Sequences, FiniteSets, TLC

VARIABLES
    stack,      \* which ServerlessAppStack definition is deployed
    table,      \* the items of the stack's table, by id (undefined: no item)
    event,      \* the event of the last invocation
    response,   \* the response last returned
    sent,       \* the commands the last invocation handed to the document client
    caught,     \* err.message of the error the last invocation caught, or undefined
    storeUp,    \* whether the store was reachable during the last invocation
    gateway     \* how the last request arrived

vars == <<stack, table, event, response, sent, caught, storeUp, gateway>>

(* ------------------------------ bounds ------------------------------- *)

\* number of distinct record ids the requests draw from
NumIds == 2

IdNames == <<"1", "2", "3", "4">>

Ids == {IdNames[i] : i \in 1..NumIds}

\* payload values the request bodies draw from
Vals == {"a", "b"}

(* -------------------------- JavaScript values ------------------------- *)

Undefined == [t |-> "undefined"]

Null == [t |-> "null"]

StrV(s) == [t |-> "string", s |-> s]

NumV(n) == [t |-> "number", n |-> n]

\* props: sequence of <<key, value>> in insertion order
ObjV(props) == [t |-> "object", props |-> props]

ArrV(items) == [t |-> "array", items |-> items]

Q == "\""

BS == "\\"

RECURSIVE Escape(_)
\* the characters of a string as they appear inside a JSON string literal
Escape(s) ==
    IF s = <<>> THEN <<>>
    ELSE (IF Head(s) = Q THEN <<BS, Q>>
          ELSE IF Head(s) = BS THEN <<BS, BS>>
          ELSE <<Head(s)>>) \o Escape(Tail(s))

RECURSIVE Tokens(_)
RECURSIVE PropTokens(_, _)
RECURSIVE ItemTokens(_, _)
\* JSON text of a value that is not undefined
Tokens(v) ==
    CASE v.t = "string" -> <<Q>> \o Escape(v.s) \o <<Q>>
      [] v.t = "null"   -> <<"null">>
      [] v.t = "number" -> <<ToString(v.n)>>
      [] v.t = "array"  -> <<"[">> \o ItemTokens(v.items, TRUE) \o <<"]">>
      [] v.t = "object" -> <<"{">> \o PropTokens(v.props, TRUE) \o <<"}">>

\* properties whose value is undefined are left out
PropTokens(props, first) ==
    IF props = <<>> THEN <<>>
    ELSE LET k == Head(props)[1]
             v == Head(props)[2]
         IN  IF v.t = "undefined" THEN PropTokens(Tail(props), first)
             ELSE (IF first THEN <<>> ELSE <<",">>)
                  \o <<Q>> \o Escape(<<k>>) \o <<Q, ":">> \o Tokens(v)
                  \o PropTokens(Tail(props), FALSE)

\* an undefined array element is written null
ItemTokens(items, first) ==
    IF items = <<>> THEN <<>>
    ELSE (IF first THEN <<>> ELSE <<",">>)
         \o (IF Head(items).t = "undefined" THEN <<"null">> ELSE Tokens(Head(items)))
         \o ItemTokens(Tail(items), FALSE)

\* JSON.stringify(v): undefined stays undefined, anything else becomes a string
JSONstringify(v) ==
    IF v.t = "undefined" THEN Undefined ELSE StrV(Tokens(v))

IsPlain(c) == c \notin {Q, BS, "{", "}", "[", "]", ":", ","}

RECURSIVE ParseMembers(_)
\* members of a flat object whose values are plain string literals
ParseMembers(toks) ==
    IF Len(toks) < 7 THEN [ok |-> FALSE, props |-> <<>>]
    ELSE IF ~(/\ toks[1] = Q /\ IsPlain(toks[2]) /\ toks[3] = Q /\ toks[4] = ":"
              /\ toks[5] = Q /\ IsPlain(toks[6]) /\ toks[7] = Q)
         THEN [ok |-> FALSE, props |-> <<>>]
    ELSE LET member == <<toks[2], StrV(<<toks[6]>>)>>
         IN  IF Len(toks) = 7 THEN [ok |-> TRUE, props |-> <<member>>]
             ELSE IF toks[8] # "," THEN [ok |-> FALSE, props |-> <<>>]
             ELSE LET rest == ParseMembers(SubSeq(toks, 9, Len(toks)))
                  IN  [ok |-> rest.ok,
                       props |-> IF rest.ok THEN <<member>> \o rest.props ELSE <<>>]

\* JSON.parse(text) with text already coerced to a string
ParseText(toks) ==
    IF toks = <<"null">> THEN [ok |-> TRUE, value |-> Null]
    ELSE IF Len(toks) = 3 /\ toks[1] = Q /\ IsPlain(toks[2]) /\ toks[3] = Q
         THEN [ok |-> TRUE, value |-> StrV(<<toks[2]>>)]
    ELSE IF Len(toks) >= 2 /\ toks[1] = "{" /\ toks[Len(toks)] = "}"
         THEN IF Len(toks) = 2 THEN [ok |-> TRUE, value |-> ObjV(<<>>)]
              ELSE LET m == ParseMembers(SubSeq(toks, 2, Len(toks) - 1))
                   IN  [ok |-> m.ok, value |-> IF m.ok THEN ObjV(m.props) ELSE Undefined]
    ELSE [ok |-> FALSE, value |-> Undefined]

\* JSON.parse(v): the argument is coerced to a string first (null -> "null",
\* undefined -> "undefined", which is no JSON text)
JSONparse(v) ==
    CASE v.t = "string"    -> ParseText(v.s)
      [] v.t = "null"      -> ParseText(<<"null">>)
      [] OTHER             -> [ok |-> FALSE, value |-> Undefined]

RECURSIVE Lookup(_, _)
Lookup(props, k) ==
    IF props = <<>> THEN Undefined
    ELSE LET r == Lookup(Tail(props), k)
         IN  IF r # Undefined THEN r
             ELSE IF Head(props)[1] = k THEN Head(props)[2] ELSE Undefined

\* v.k : throws a TypeError on null and undefined
CanRead(v) == v.t \notin {"null", "undefined"}

GetProp(v, k) == IF v.t = "object" THEN Lookup(v.props, k) ELSE Undefined

\* `${v}` inside a template literal
Text(v) ==
    CASE v.t = "string"    -> v.s
      [] v.t = "undefined" -> <<"undefined">>
      [] v.t = "null"      -> <<"null">>
      [] OTHER             -> <<"[object Object]">>

(* ------------------------- stack definitions -------------------------- *)

\* the three ServerlessAppStack definitions, in source order
Stacks == {"first", "second", "tutorial"}

CognitoStacks == {"first", "second"}

\* tableName of the Table each stack creates
StackTable(s) == IF s = "tutorial" THEN "tutorial-items" ELSE "blogdb"

\* the partition key attribute of every table
PartitionKey == "id"

\* the resource added under the API root
Collection(s) == IF s = "tutorial" THEN "/items" ELSE "/posts"

ItemResource(s) == Collection(s) \o "/{id}"

\* mutant: the role does not grant GetItem either
GrantedActionsNoGet(s) ==
    {"dynamodb:BatchGetItem", "dynamodb:Query", "dynamodb:Scan",
     "dynamodb:BatchWriteItem", "dynamodb:PutItem", "dynamodb:UpdateItem"}

\* actions on the table granted to the handler's execution role
GrantedActions(s) ==
    {"dynamodb:BatchGetItem", "dynamodb:GetItem", "dynamodb:Query", "dynamodb:Scan",
     "dynamodb:BatchWriteItem", "dynamodb:PutItem", "dynamodb:UpdateItem"}

\* mutant: PUT on the collection is added without the authorizer
MethodsOpenPut(s) ==
    {[method |-> "GET", resource |-> Collection(s), cognito |-> (s = "first")],
     [method |-> "PUT", resource |-> Collection(s), cognito |-> FALSE],
     [method |-> "GET", resource |-> ItemResource(s), cognito |-> (s \in CognitoStacks)],
     [method |-> "DELETE", resource |-> ItemResource(s), cognito |-> (s \in CognitoStacks)]}

\* addMethod calls that integrate the handler: method, resource, Cognito authorizer
Methods(s) ==
    {[method |-> "GET", resource |-> Collection(s), cognito |-> (s = "first")],
     [method |-> "PUT", resource |-> Collection(s), cognito |-> (s \in CognitoStacks)],
     [method |-> "GET", resource |-> ItemResource(s), cognito |-> (s \in CognitoStacks)],
     [method |-> "DELETE", resource |-> ItemResource(s), cognito |-> (s \in CognitoStacks)]}

(* ------------------------------ the store ----------------------------- *)

\* the IAM action a document-client command needs
ActionOf(cmd) ==
    CASE cmd.op = "Scan"   -> "dynamodb:Scan"
      [] cmd.op = "Get"    -> "dynamodb:GetItem"
      [] cmd.op = "Put"    -> "dynamodb:PutItem"
      [] cmd.op = "Delete" -> "dynamodb:DeleteItem"

RECURSIVE Defined(_)
\* an item as the v2 document client marshals it: undefined attributes dropped
Defined(props) ==
    IF props = <<>> THEN <<>>
    ELSE (IF Head(props)[2].t = "undefined" THEN <<>> ELSE <<Head(props)>>)
         \o Defined(Tail(props))

HasUndefined(props) == \E i \in 1..Len(props) : props[i][2].t = "undefined"

RECURSIVE ItemsIn(_, _)
\* the items present, in the order the store returns them
ItemsIn(tbl, order) ==
    IF order = <<>> THEN <<>>
    ELSE (IF tbl[Head(order)] = Undefined THEN <<>> ELSE <<tbl[Head(order)]>>)
         \o ItemsIn(tbl, Tail(order))

Threw(msg, tbl) == [ok |-> FALSE, message |-> msg, output |-> Undefined, table |-> tbl]

Returned(out, tbl) == [ok |-> TRUE, message |-> <<>>, output |-> out, table |-> tbl]

\* PutItem replaces the whole item stored under the item's key
PutItem(tbl, item) ==
    [tbl EXCEPT ![Lookup(item, PartitionKey).s[1]] = ObjV(Defined(item))]

\* DeleteItem removes the item stored under the key, if any
DeleteItem(tbl, key) == [tbl EXCEPT ![key.s[1]] = Undefined]

\* what the table does with a command that reached it
Apply(cmd, tbl, order) ==
    CASE cmd.op = "Scan" ->
           LET items == ItemsIn(tbl, order)
           IN  Returned(ObjV(<< <<"Items", ArrV(items)>>,
                                <<"Count", NumV(Len(items))>>,
                                <<"ScannedCount", NumV(Len(items))>> >>), tbl)
      [] cmd.op = "Get" ->
           Returned(ObjV(IF tbl[cmd.key.s[1]] = Undefined THEN <<>>
                         ELSE << <<"Item", tbl[cmd.key.s[1]]>> >>), tbl)
      [] cmd.op = "Put" -> Returned(ObjV(<<>>), PutItem(tbl, cmd.item))
      [] cmd.op = "Delete" -> Returned(ObjV(<<>>), DeleteItem(tbl, cmd.key))

\* the key the command names is a string the table can hold
KeyGiven(cmd) ==
    LET k == IF cmd.op = "Put" THEN Lookup(cmd.item, PartitionKey) ELSE cmd.key
    IN  cmd.op = "Scan" \/ k.t = "string"

\* dynamo.send(cmd) / dynamo.<op>(params).promise() as run by the handler of
\* stack s: v3 marshalling refuses undefined attributes, the role must grant
\* the action, the table must exist, and the call itself may fail (up = FALSE)
Send(s, v3, cmd, tbl, up, order) ==
    IF v3 /\ cmd.op = "Put" /\ HasUndefined(cmd.item)
    THEN Threw(<<"Pass options.removeUndefinedValues=true to remove undefined values from map/array/set.">>, tbl)
    ELSE IF ~up THEN Threw(<<"Service Unavailable">>, tbl)
    ELSE IF ActionOf(cmd) \notin GrantedActions(s)
    THEN Threw(<<"User is not authorized to perform: ", ActionOf(cmd)>>, tbl)
    ELSE IF cmd.table # StackTable(s)
    THEN Threw(<<"Requested resource not found">>, tbl)
    ELSE IF ~KeyGiven(cmd)
    THEN Threw(<<"The provided key element does not match the schema">>, tbl)
    ELSE Apply(cmd, tbl, order)

(* ----------------------------- the handlers --------------------------- *)

Cmd(op, tbl, key, item) == [op |-> op, table |-> tbl, key |-> key, item |-> item]

\* mutant: a command that failed is issued a second time
RaiseRetry(msg, cmds, tbl) ==
    [threw |-> TRUE, message |-> msg, body |-> Undefined, sent |-> cmds \o cmds,
     table |-> tbl]

\* outcome of the try block: an error thrown, or the body assigned
Raise(msg, cmds, tbl) ==
    [threw |-> TRUE, message |-> msg, body |-> Undefined, sent |-> cmds, table |-> tbl]

Done(body, cmds, tbl) ==
    [threw |-> FALSE, message |-> <<>>, body |-> body, sent |-> cmds, table |-> tbl]

TypeErrorMessage(k) == <<"Cannot read properties of null (reading '", k, "')">>

SyntaxErrorMessage == <<"Unexpected end of JSON input">>

\* mutant: the message does not carry the key
UnsupportedRouteNoKey(key) == <<"Unsupported route">>

UnsupportedRoute(key) == <<"Unsupported route: ", Q, key, Q>>

\* mutant: the catch block does not set statusCode
FinishKeepsStatus(try, headers) ==
    [statusCode |-> 200,
     body       |-> JSONstringify(IF try.threw THEN StrV(try.message) ELSE try.body),
     headers    |-> headers,
     sent       |-> try.sent,
     caught     |-> IF try.threw THEN StrV(try.message) ELSE Undefined,
     table      |-> try.table]

\* catch { statusCode = 400; body = err.message } finally { body = JSON.stringify(body) }
Finish(try, headers) ==
    [statusCode |-> IF try.threw THEN 400 ELSE 200,
     body       |-> JSONstringify(IF try.threw THEN StrV(try.message) ELSE try.body),
     headers    |-> headers,
     sent       |-> try.sent,
     caught     |-> IF try.threw THEN StrV(try.message) ELSE Undefined,
     table      |-> try.table]

\* mutant: the table name is misspelt
tableNameMisspelt == "blogDb"

\* const tableName = "blogdb"
tableName == "blogdb"

\* const ownTable = 'tutorial-items'
ownTable == "tutorial-items"

BlogHeaders ==
    << <<"Content-Type", "application/json">>,
       <<"Access-Control-Allow-Origin", "http://localhost:3000">>,
       <<"Access-Control-Allow-Credentials", "true">> >>

ItemsHeaders ==
    << <<"Content-Type", "application/json">>,
       <<"Access-Control-Allow-Headers", "Content-Type">>,
       <<"Access-Control-Allow-Origin", "http://localhost:3000">>,
       <<"Access-Control-Allow-Methods", "OPTIONS,PUT,GET,DELETE">> >>

\* mutant: the two payload fields are copied into each other's attribute
BlogItemSwapped(requestJSON) ==
    << <<"id", GetProp(requestJSON, "id")>>,
       <<"postTitle", GetProp(requestJSON, "postDescription")>>,
       <<"postDescription", GetProp(requestJSON, "postTitle")>> >>

\* mutant: the item is written under a fixed id
BlogItemFixedId(requestJSON) ==
    << <<"id", StrV(<<"1">>)>>,
       <<"postTitle", GetProp(requestJSON, "postTitle")>>,
       <<"postDescription", GetProp(requestJSON, "postDescription")>> >>

\* Item of the blogdb handler's PutCommand
BlogItem(requestJSON) ==
    << <<"id", GetProp(requestJSON, "id")>>,
       <<"postTitle", GetProp(requestJSON, "postTitle")>>,
       <<"postDescription", GetProp(requestJSON, "postDescription")>> >>

\* Item of the tutorial-items handler's put
ItemsItem(requestJSON) ==
    << <<"id", GetProp(requestJSON, "id")>>,
       <<"price", GetProp(requestJSON, "price")>>,
       <<"name", GetProp(requestJSON, "name")>> >>

\* event.httpMethod + ' ' + event.resource
BlogKey(ev) == ev.httpMethod \o " " \o ev.resource

\* event.httpMethod + ' ' + event.path
ItemsKey(ev) == ev.httpMethod \o " " \o ev.path

\* the handler of the blogdb stacks (v3 document client, keyed on event.resource)
BlogTry(s, ev, tbl, up, order) ==
    LET key == BlogKey(ev)
        pp  == ev.pathParameters
    IN  CASE key = "DELETE /posts/{id}" ->
               IF ~CanRead(pp) THEN Raise(TypeErrorMessage("id"), <<>>, tbl)
               ELSE LET cmd == Cmd("Delete", tableName, GetProp(pp, "id"), <<>>)
                        r   == Send(s, TRUE, cmd, tbl, up, order)
                    IN  IF ~r.ok THEN Raise(r.message, <<cmd>>, r.table)
                        ELSE Done(StrV(<<"Deleted item ">> \o Text(GetProp(pp, "id"))),
                                  <<cmd>>, r.table)
          [] key = "GET /posts/{id}" ->
               IF ~CanRead(pp) THEN Raise(TypeErrorMessage("id"), <<>>, tbl)
               ELSE LET cmd == Cmd("Get", tableName, GetProp(pp, "id"), <<>>)
                        r   == Send(s, TRUE, cmd, tbl, up, order)
                    IN  IF ~r.ok THEN Raise(r.message, <<cmd>>, r.table)
                        ELSE Done(GetProp(r.output, "Item"), <<cmd>>, r.table)
          [] key = "GET /posts" ->
               LET cmd == Cmd("Scan", tableName, Undefined, <<>>)
                   r   == Send(s, TRUE, cmd, tbl, up, order)
               IN  IF ~r.ok THEN Raise(r.message, <<cmd>>, r.table)
                   ELSE Done(GetProp(r.output, "Items"), <<cmd>>, r.table)
          [] key = "PUT /posts" ->
               LET parsed == JSONparse(ev.body)
                   requestJSON == parsed.value
               IN  IF ~parsed.ok THEN Raise(SyntaxErrorMessage, <<>>, tbl)
                   ELSE IF ~CanRead(requestJSON) THEN Raise(TypeErrorMessage("id"), <<>>, tbl)
                   ELSE LET cmd == Cmd("Put", tableName, Undefined, BlogItem(requestJSON))
                            r   == Send(s, TRUE, cmd, tbl, up, order)
                        IN  IF ~r.ok THEN Raise(r.message, <<cmd>>, r.table)
                            ELSE Done(StrV(<<"Put post ">> \o Text(GetProp(requestJSON, "id"))),
                                      <<cmd>>, r.table)
          [] OTHER -> Raise(UnsupportedRoute(key), <<>>, tbl)

\* the handler of the tutorial stack (v2 document client, keyed on event.path)
ItemsTry(s, ev, tbl, up, order) ==
    LET key == ItemsKey(ev)
        pp  == ev.pathParameters
    IN  CASE key = "DELETE /items/{id}" ->
               IF ~CanRead(pp) THEN Raise(TypeErrorMessage("id"), <<>>, tbl)
               ELSE LET cmd == Cmd("Delete", ownTable, GetProp(pp, "id"), <<>>)
                        r   == Send(s, FALSE, cmd, tbl, up, order)
                    IN  IF ~r.ok THEN Raise(r.message, <<cmd>>, r.table)
                        ELSE Done(StrV(<<"Deleted item ">> \o Text(GetProp(pp, "id"))),
                                  <<cmd>>, r.table)
          [] key = "GET /items/{id}" ->
               IF ~CanRead(pp) THEN Raise(TypeErrorMessage("id"), <<>>, tbl)
               ELSE LET cmd == Cmd("Get", ownTable, GetProp(pp, "id"), <<>>)
                        r   == Send(s, FALSE, cmd, tbl, up, order)
                    IN  IF ~r.ok THEN Raise(r.message, <<cmd>>, r.table)
                        ELSE Done(r.output, <<cmd>>, r.table)
          [] key = "GET /items" ->
               LET cmd == Cmd("Scan", ownTable, Undefined, <<>>)
                   r   == Send(s, FALSE, cmd, tbl, up, order)
               IN  IF ~r.ok THEN Raise(r.message, <<cmd>>, r.table)
                   ELSE Done(r.output, <<cmd>>, r.table)
          [] key = "PUT /items" ->
               LET parsed == JSONparse(ev.body)
                   requestJSON == parsed.value
               IN  IF ~parsed.ok THEN Raise(SyntaxErrorMessage, <<>>, tbl)
                   ELSE IF ~CanRead(requestJSON) THEN Raise(TypeErrorMessage("id"), <<>>, tbl)
                   ELSE LET cmd == Cmd("Put", ownTable, Undefined, ItemsItem(requestJSON))
                            r   == Send(s, FALSE, cmd, tbl, up, order)
                        IN  IF ~r.ok THEN Raise(r.message, <<cmd>>, r.table)
                            ELSE Done(StrV(<<"Put item ">> \o Text(GetProp(requestJSON, "id"))),
                                      <<cmd>>, r.table)
          [] OTHER -> Raise(UnsupportedRoute(key), <<>>, tbl)

\* the function each stack deploys: the blogdb handler in the two stacks that
\* create the blogdb table, the tutorial-items handler in the tutorial stack
handler(s, ev, tbl, up, order) ==
    IF s \in CognitoStacks
    THEN Finish(BlogTry(s, ev, tbl, up, order), BlogHeaders)
    ELSE Finish(ItemsTry(s, ev, tbl, up, order), ItemsHeaders)

(* ------------------------------- inputs ------------------------------- *)

HttpMethods == {"GET", "PUT", "DELETE", "PATCH"}

Event(m, resource, path, pp, body) ==
    [httpMethod |-> m, resource |-> resource, path |-> path,
     pathParameters |-> pp, body |-> body]

NoEvent == Event("", "", "", Null, Null)

IdParameter(i) == ObjV(<< <<"id", StrV(<<i>>)>> >>)

\* pathParameters: null when the resource has no parameter
PathParameters == {Null} \cup {IdParameter(i) : i \in Ids}

BodyOf(props) == JSONstringify(ObjV(props))

Field(k, v) == <<k, StrV(<<v>>)>>

\* request bodies: absent, the text null, cut-off text, an object without id,
\* and objects with an id and two payload fields under each naming
Bodies ==
    {Null, StrV(<<"null">>), StrV(<<"{">>), StrV(<<"{", Q, "id", Q, ":", Q, "1">>),
     BodyOf(<<Field("postTitle", "a")>>)}
    \cup {BodyOf(<<Field("id", i), Field("title", "a"), Field("description", "b")>>) :
            i \in Ids}
    \cup {BodyOf(<<Field("id", i), Field("postTitle", v), Field("postDescription", "b")>>) :
            i \in Ids, v \in Vals}
    \cup {BodyOf(<<Field("id", i), Field("name", v), Field("price", "b")>>) :
            i \in Ids, v \in Vals}

\* requests on the collection: no path parameters; PUT carries a body
CollectionEvents(s) ==
    {Event(m, Collection(s), Collection(s), Null, Null) : m \in HttpMethods \ {"PUT"}}
    \cup {Event("PUT", Collection(s), Collection(s), Null, b) : b \in Bodies}

\* requests on an item: the resource template with the concrete path, as the API
\* layer pairs them, and the template given as the path, with and without
\* path parameters
ItemEvents(s) ==
    {Event(m, ItemResource(s), Collection(s) \o "/" \o i, IdParameter(i), Null) :
        m \in HttpMethods, i \in Ids}
    \cup {Event(m, ItemResource(s), ItemResource(s), pp, Null) :
            m \in HttpMethods, pp \in PathParameters}

Events(s) == CollectionEvents(s) \cup ItemEvents(s)

\* the orders in which a scan may return the items
Orders == {o \in [1..NumIds -> Ids] : \A i, j \in 1..NumIds : o[i] = o[j] => i = j}

OrdersFor(m) == IF m = "GET" THEN Orders ELSE {[i \in 1..NumIds |-> IdNames[i]]}

(* ------------------------------- actions ------------------------------ *)

NoResponse == [statusCode |-> 0, body |-> Undefined, headers |-> <<>>]

\* how the last request arrived: outcome is "invoked" when the function ran
Direct == [via |-> "direct", outcome |-> "invoked", authenticated |-> FALSE, cognito |-> FALSE]

Init ==
    /\ stack \in Stacks
    /\ table = [i \in Ids |-> Undefined]
    /\ event = NoEvent
    /\ response = NoResponse
    /\ sent = <<>>
    /\ caught = Undefined
    /\ storeUp = TRUE
    /\ gateway = Direct

\* one run of the deployed function on event ev
Run(ev, up, order) ==
    \E r \in {handler(stack, ev, table, up, order)} :
        /\ event' = ev
        /\ response' = [statusCode |-> r.statusCode, body |-> r.body, headers |-> r.headers]
        /\ sent' = r.sent
        /\ caught' = r.caught
        /\ storeUp' = up
        /\ table' = r.table
        /\ UNCHANGED stack

\* the function invoked with any event
Invoke ==
    \E ev \in Events(stack), up \in BOOLEAN :
        \E order \in OrdersFor(ev.httpMethod) :
            /\ Run(ev, up, order)
            /\ gateway' = Direct

(* ----------------------------- the REST API --------------------------- *)

Targets == {"collection"} \cup Ids

ResourceOf(s, target) == IF target = "collection" THEN Collection(s) ELSE ItemResource(s)

PathOf(s, target) ==
    IF target = "collection" THEN Collection(s) ELSE Collection(s) \o "/" \o target

\* the addMethod declarations matching a request
Declared(s, m, target) ==
    {d \in Methods(s) : d.method = m /\ d.resource = ResourceOf(s, target)}

NeedsToken(s, m, target) == \E d \in Declared(s, m, target) : d.cognito

\* the Lambda proxy event the API builds for a request it forwards
ProxyEvent(s, m, target, body) ==
    Event(m, ResourceOf(s, target), PathOf(s, target),
          IF target = "collection" THEN Null ELSE IdParameter(target), body)

Refuse(code, text, token, cognito) ==
    /\ gateway' = [via |-> "api", outcome |-> "refused", authenticated |-> token,
                   cognito |-> cognito]
    /\ event' = NoEvent
    /\ response' = [statusCode |-> code, body |-> StrV(<<text>>), headers |-> <<>>]
    /\ sent' = <<>>
    /\ caught' = Undefined
    /\ UNCHANGED <<stack, table, storeUp>>

\* a request for a method no addMethod declares on the resource
ApiUndeclared ==
    \E m \in HttpMethods, target \in Targets, token \in BOOLEAN :
        /\ Declared(stack, m, target) = {}
        /\ Refuse(403, "Missing Authentication Token", token, FALSE)

\* a request without a valid token on a method guarded by the Cognito authorizer
ApiUnauthorized ==
    \E m \in HttpMethods, target \in Targets :
        /\ NeedsToken(stack, m, target)
        /\ Refuse(401, "Unauthorized", FALSE, TRUE)

\* a request the API forwards to the function
ApiForward ==
    \E m \in HttpMethods, target \in Targets, token \in BOOLEAN, up \in BOOLEAN :
        \E b \in (IF m = "PUT" THEN Bodies ELSE {Null}), order \in OrdersFor(m) :
            /\ Declared(stack, m, target) # {}
            /\ NeedsToken(stack, m, target) => token
            /\ Run(ProxyEvent(stack, m, target, b), up, order)
            /\ gateway' = [via |-> "api", outcome |-> "invoked", authenticated |-> token,
                           cognito |-> NeedsToken(stack, m, target)]

Next == Invoke

Spec == Init /\ [][Next]_vars

ApiNext == ApiUndeclared \/ ApiUnauthorized \/ ApiForward

\* requests arriving through the REST API only
ApiSpec == Init /\ [][ApiNext]_vars

(* ------------------------------- claims ------------------------------- *)

\* the routing key the deployed handler forms for an event
RoutingKey(s, ev) == IF s \in CognitoStacks THEN BlogKey(ev) ELSE ItemsKey(ev)

ListKey(s) == "GET " \o Collection(s)

ReadKey(s) == "GET " \o ItemResource(s)

UpsertKey(s) == "PUT " \o Collection(s)

DeleteKey(s) == "DELETE " \o ItemResource(s)

DefinedKeys(s) == {ListKey(s), ReadKey(s), UpsertKey(s), DeleteKey(s)}

\* the function ran on event ev
Ran(g, ev) == g.outcome = "invoked" /\ ev # NoEvent

\* the function ran on an event in the last step
Invoked == Ran(gateway, event)

Key == RoutingKey(stack, event)

\* the store operation paired with the routing key
PairedOp ==
    CASE Key = ListKey(stack)   -> "Scan"
      [] Key = ReadKey(stack)   -> "Get"
      [] Key = UpsertKey(stack) -> "Put"
      [] Key = DeleteKey(stack) -> "Delete"
      [] OTHER                  -> "none"

\* exactly the paired operation was issued, on the stack's table, and for
\* get and delete with Key.id = pathParameters.id
IssuedPaired ==
    /\ Len(sent) = 1
    /\ sent[1].op = PairedOp
    /\ sent[1].table = StackTable(stack)
    /\ PairedOp \in {"Get", "Delete"} => sent[1].key = GetProp(event.pathParameters, "id")

\* the arguments of the paired operation can be formed from the event
ArgumentsFormed ==
    CASE PairedOp \in {"Get", "Delete"} -> event.pathParameters # Null
      [] PairedOp = "Put" -> JSONparse(event.body).ok /\ JSONparse(event.body).value # Null
      [] OTHER -> TRUE

\* C1 as stated: on each of the four defined routing keys the handler issues
\* exactly the paired store operation, on the fixed table, and no other.
C1_AsStated == (Invoked /\ Key \in DefinedKeys(stack)) => IssuedPaired

\* C1 amended: on each of the four defined routing keys the handler issues
\* exactly the paired store operation, on the fixed table, and no other, when
\* the operation's arguments can be formed (pathParameters present on the item
\* routes, a PUT body that parses to a value other than null); when they cannot
\* be formed it issues no store operation at all.
C1_Dispatch ==
    (Invoked /\ Key \in DefinedKeys(stack)) =>
        IF ArgumentsFormed THEN IssuedPaired ELSE sent = <<>>

\* the tutorial-items handler issued a get-by-key for the id in the path
\* parameters, and only that, and the store served it
C1_Witness ==
    /\ Invoked /\ stack = "tutorial" /\ Key = ReadKey(stack)
    /\ IssuedPaired /\ sent[1].key = StrV(<<"2">>)
    /\ response.statusCode = 200

Failed == caught # Undefined

\* the PUT body as parsed
Parsed == JSONparse(event.body)

\* ev is a PUT on the collection whose body does not parse
Unparsable(s, ev) == RoutingKey(s, ev) = UpsertKey(s) /\ ~JSONparse(ev.body).ok

UnparsableBody == Unparsable(stack, event)

\* the event is on an item route and carries no path parameters
AbsentParameters == Key \in {ReadKey(stack), DeleteKey(stack)} /\ event.pathParameters = Null

\* C2 as stated: statusCode is 400 exactly when a failure was raised and 200
\* otherwise, whatever the kind of failure, and on failure the response body
\* is the failure's message text.
C2_AsStated ==
    Invoked =>
        /\ response.statusCode = (IF Failed THEN 400 ELSE 200)
        /\ (Key \notin DefinedKeys(stack) \/ UnparsableBody \/ (sent # <<>> /\ ~storeUp))
               => response.statusCode = 400
        /\ Failed => response.body = caught

\* C2 amended: statusCode is 400 exactly when a failure was raised and 200
\* otherwise, whatever the kind of failure (unsupported route, unparsable
\* body, failed store call), and on failure the response body is the JSON
\* encoding of the failure's message text: the text between double quotes,
\* with the double quotes and backslashes inside it escaped.
C2_ErrorPolicy ==
    Invoked =>
        /\ response.statusCode = (IF Failed THEN 400 ELSE 200)
        /\ (Key \notin DefinedKeys(stack) \/ UnparsableBody \/ (sent # <<>> /\ ~storeUp))
               => response.statusCode = 400
        /\ Failed => response.body = StrV(<<Q>> \o Escape(caught.s) \o <<Q>>)

\* a store call failed and the invocation answered 400
C2_Witness ==
    /\ Invoked /\ Failed /\ sent # <<>> /\ ~storeUp
    /\ response.statusCode = 400

\* the text Unsupported route: "<method> <path>"
UnsupportedText(key) == <<"Unsupported route: ", Q, key, Q>>

\* C3 as stated: a request whose routing key is none of the four gets 400 and
\* a body equal to the text Unsupported route: "<key>", and no store operation
\* is issued, so the store is unchanged.
C3_AsStated ==
    [][\A ev \in {event'}, key \in {RoutingKey(stack, event')} :
         (Ran(gateway', ev) /\ key \notin DefinedKeys(stack))
             => /\ response'.statusCode = 400
                /\ response'.body = StrV(UnsupportedText(key))
                /\ sent' = <<>>
                /\ table' = table]_vars

\* C3 amended: a request whose routing key is none of the four gets 400 and a
\* body that is the JSON encoding of the text Unsupported route: "<key>" (the
\* text between double quotes, the quotes around the key escaped with a
\* backslash), and no store operation is issued, so the store is unchanged.
C3_UnsupportedRoute ==
    [][\A ev \in {event'}, key \in {RoutingKey(stack, event')} :
         (Ran(gateway', ev) /\ key \notin DefinedKeys(stack))
             => /\ response'.statusCode = 400
                /\ response'.body = StrV(<<Q, "Unsupported route: ", BS, Q, key, BS, Q, Q>>)
                /\ sent' = <<>>
                /\ table' = table]_vars

\* PATCH on the collection was refused while the table held an item
C3_Witness ==
    /\ Invoked /\ event.httpMethod = "PATCH" /\ Key = "PATCH /posts"
    /\ response.statusCode = 400
    /\ table["1"] # Undefined

\* C4 as stated: on every route, on success and on failure, the body of the
\* returned response is a string, never an object and never undefined.
C4_AsStated == Invoked => response.body.t = "string"

\* the id the path parameters of ev name
IdParameterOf(ev) == GetProp(ev.pathParameters, "id").s[1]

ParameterId == IdParameterOf(event)

\* C5: read-one of an id that is not in the store returns 200, not 400, with
\* a body that holds no item (nothing at all, or the empty object {}),
\* provided the store serves the call.
C5_ReadAbsent ==
    (/\ Invoked /\ Key = ReadKey(stack) /\ event.pathParameters # Null
     /\ table[ParameterId] = Undefined /\ storeUp)
        => /\ response.statusCode = 200
           /\ response.body \in {Undefined, StrV(<<"{", "}">>)}

\* read-one of an absent id answered 200 while another item was stored
C5_Witness ==
    /\ Invoked /\ Key = ReadKey(stack) /\ event.pathParameters # Null /\ storeUp
    /\ table[ParameterId] = Undefined
    /\ \E i \in Ids : table[i] # Undefined
    /\ response.statusCode = 200

\* C6 as stated: a delete returns 200 with the confirmation naming the id
\* whether or not the id exists, and leaves the store as it was except that the
\* id is absent (so a second delete, or a delete of an absent id, changes
\* nothing); stated here even with the store reachable.
C6_AsStated ==
    [][\A ev \in {event'} :
         (/\ Ran(gateway', ev) /\ RoutingKey(stack, ev) = DeleteKey(stack)
          /\ ev.pathParameters # Null /\ storeUp')
             => /\ response'.statusCode = 200
                /\ response'.body =
                       JSONstringify(StrV(<<"Deleted item ", IdParameterOf(ev)>>))
                /\ table' = [table EXCEPT ![IdParameterOf(ev)] = Undefined]]_vars

\* the PUT body parses to an object that has every field of ks
BodyHas(ks) ==
    /\ Parsed.ok /\ Parsed.value.t = "object"
    /\ \A k \in ks : GetProp(Parsed.value, k) # Undefined

\* the id the body of ev names
BodyIdOf(ev) == GetProp(JSONparse(ev.body).value, "id").s[1]

BodyId == BodyIdOf(event)

\* the table holds, under the body's id, an item with exactly the fields ks,
\* each with the body's value
StoredFromBody(ks) ==
    LET item == table[BodyId]
    IN  /\ item # Undefined
        /\ {item.props[n][1] : n \in 1..Len(item.props)} = ks
        /\ \A k \in ks : GetProp(item, k) = GetProp(Parsed.value, k)

BodyNamesId == \E n \in 1..Len(response.body.s) : response.body.s[n] = BodyId

\* C7 as stated: a PUT whose body has id, title and description leaves under
\* that id a record with those three fields and values, and answers 200 with a
\* body containing the id.
C7_AsStated ==
    (Invoked /\ Key = UpsertKey(stack) /\ BodyHas({"id", "title", "description"}))
        => /\ StoredFromBody({"id", "title", "description"})
           /\ response.statusCode = 200
           /\ BodyNamesId

\* the two payload fields the deployed handler copies
PayloadFields(s) ==
    IF s \in CognitoStacks THEN {"postTitle", "postDescription"} ELSE {"price", "name"}

\* C7 amended: a PUT whose body has id and the handler's own two payload
\* fields (postTitle and postDescription in the blogdb handler, price and name
\* in the tutorial-items handler; title and description are not copied)
\* leaves under that id a record with those three fields and values, and
\* answers 200 with a body containing the id, when the store serves the call.
C7_Upsert ==
    (/\ Invoked /\ Key = UpsertKey(stack) /\ storeUp
     /\ BodyHas({"id"} \cup PayloadFields(stack)))
        => /\ StoredFromBody({"id"} \cup PayloadFields(stack))
           /\ response.statusCode = 200
           /\ response.body.t = "string" /\ BodyNamesId

\* a post with two different payload values was stored by the blogdb handler
C7_Witness ==
    /\ Invoked /\ stack = "first" /\ Key = UpsertKey(stack) /\ storeUp
    /\ BodyHas({"id", "postTitle", "postDescription"})
    /\ GetProp(Parsed.value, "postTitle") # GetProp(Parsed.value, "postDescription")
    /\ StoredFromBody({"id", "postTitle", "postDescription"})
    /\ response.statusCode = 200

\* every record but the one under id i is as it was
OnlyChanged(i) == \A j \in Ids : j # i => table'[j] = table[j]

\* C8: list and read-one leave the store unchanged; an upsert that succeeds
\* changes only the record under the body's id, a delete that succeeds only
\* the record under pathParameters.id; an invocation that ends with 400
\* because of an unsupported route or an unparsable body leaves the store
\* unchanged.
C8_Frame ==
    [][\A ev \in {event'}, key \in {RoutingKey(stack, event')} :
         Ran(gateway', ev) =>
           /\ key \in {ListKey(stack), ReadKey(stack)} => table' = table
           /\ (key = UpsertKey(stack) /\ response'.statusCode = 200)
                  => \A i \in {BodyIdOf(ev)} : OnlyChanged(i)
           /\ (key = DeleteKey(stack) /\ response'.statusCode = 200)
                  => \A i \in {IdParameterOf(ev)} : OnlyChanged(i)
           /\ (response'.statusCode = 400
                    /\ (key \notin DefinedKeys(stack) \/ Unparsable(stack, ev)))
                  => table' = table]_vars

\* an upsert of id 2 succeeded while the record under id 1 was stored
C8_Witness ==
    /\ Invoked /\ Key = UpsertKey(stack) /\ response.statusCode = 200
    /\ Parsed.ok /\ BodyId = "2"
    /\ table["1"] # Undefined /\ table["2"] # Undefined

\* C9: an invocation issues at most one store operation: a store call that
\* fails is not issued again and the invocation answers 400; an invocation that
\* fails before the store call (unsupported route, unparsable body, absent
\* pathParameters) issues none.
C9_AtMostOne ==
    Invoked =>
        /\ Len(sent) <= 1
        /\ (sent # <<>> /\ Failed) => (Len(sent) = 1 /\ response.statusCode = 400)
        /\ (Key \notin DefinedKeys(stack) \/ UnparsableBody \/ AbsentParameters)
               => (sent = <<>> /\ response.statusCode = 400)

\* a put that the unreachable store failed was issued once and answered 400
C9_Witness ==
    /\ Invoked /\ ~storeUp /\ Failed
    /\ Key = UpsertKey(stack) /\ BodyHas({"id"} \cup PayloadFields(stack))
    /\ Len(sent) = 1 /\ sent[1].op = "Put"
    /\ response.statusCode = 400

\* C10: in the two Cognito-protected stacks the function runs for PUT /posts,
\* GET /posts/{id} and DELETE /posts/{id} only on requests that passed the
\* authorizer, a request without a valid token never changes the store, and
\* the function runs without an authorization check only for GET /posts in the
\* second stack.
C10_Authorized ==
    [][\A ev \in {event'}, g \in {gateway'} :
         (stack \in CognitoStacks /\ g.via = "api") =>
           /\ (Ran(g, ev) /\ BlogKey(ev) \in {"PUT /posts", "GET /posts/{id}",
                                               "DELETE /posts/{id}"})
                  => (g.cognito /\ g.authenticated)
           /\ ~g.authenticated => table' = table
           /\ (Ran(g, ev) /\ ~g.cognito)
                  => (stack = "second" /\ BlogKey(ev) = "GET /posts")]_vars

\* the second stack listed the stored posts for a request without a token
C10_Witness ==
    /\ stack = "second" /\ gateway.via = "api" /\ Invoked
    /\ ~gateway.cognito /\ ~gateway.authenticated
    /\ BlogKey(event) = "GET /posts"
    /\ response.statusCode = 200
    /\ table["1"] # Undefined

\* the last request was forwarded to the function by the REST API
Forwarded == gateway.via = "api" /\ Invoked

\* C11 as stated: for every request the API forwards on one of the four
\* method/resource pairs its stack declares, the routing key the handler forms
\* is one of its four switch cases, so the request never ends in the
\* unsupported-route error; in the handler keyed on event.resource and in the
\* handler keyed on event.path.
C11_AsStated ==
    Forwarded =>
        /\ Key \in DefinedKeys(stack)
        /\ caught # StrV(UnsupportedRoute(Key))

\* C12 as stated: every store operation the handler issues is among the table
\* actions granted to its execution role, so no request on a defined route
\* ends with 400 because the store denied the operation; stated for the
\* invocations during which the store is reachable.
C12_AsStated ==
    (Invoked /\ Key \in DefinedKeys(stack) /\ storeUp) =>
        \A n \in 1..Len(sent) :
            /\ ActionOf(sent[n]) \in GrantedActions(stack)
            /\ caught # StrV(<<"User is not authorized to perform: ", ActionOf(sent[n])>>)

====
